---- MODULE Spec2Model ----
(***************************************************************************)
(* fix_react_hooks.py: a one-file patcher that adds `useCallback` to a     *)
(* React named import.  File contents are sequences of lexical tokens      *)
(* (the regexes of the script only distinguish these tokens); the file on  *)
(* disk holds bytes, the script works on the text that Python's text-mode  *)
(* open() decodes from / encodes to those bytes.                           *)
(***************************************************************************)
EXTENDS Integers, Sequences, FiniteSets, TLC

\* ---- bounds -------------------------------------------------------------
MaxSegs == 2      \* a file is a concatenation of at most MaxSegs segments
MaxRuns == 2      \* successive invocations on the same file

\* ---- tokens -------------------------------------------------------------
SP == "SP"
CR == "CR"
LF == "LF"
Whitespace == {SP, CR, LF}

\* the two patterns of re.sub, token by token
Pattern1 == <<"import", "\\s+", "{", "\\s*", "useEffect", ",", "\\s*", "useState", "\\s*", "}">>
Pattern2 == <<"import", "\\s+", "{", "\\s*", "useState", ",", "\\s*", "useEffect", "\\s*", "}">>

\* variant: the brace is written after a space
Replacement_spaced == <<",", SP, "useCallback", SP, "}">>

\* the text the template r'\1, useCallback}' adds after group 1
Replacement == <<",", SP, "useCallback", "}">>

\* ---- pure helpers -------------------------------------------------------
RECURSIVE SkipWS(_, _)
SkipWS(s, i) == IF i <= Len(s) /\ s[i] \in Whitespace THEN SkipWS(s, i + 1) ELSE i

\* position just after the match of p[j..] at s[i..], or 0 when there is none
RECURSIVE MatchAt(_, _, _, _)
MatchAt(s, i, p, j) ==
    IF j > Len(p) THEN i
    ELSE IF p[j] = "\\s+"
         THEN IF i <= Len(s) /\ s[i] \in Whitespace
              THEN MatchAt(s, SkipWS(s, i), p, j + 1) ELSE 0
    ELSE IF p[j] = "\\s*" THEN MatchAt(s, SkipWS(s, i), p, j + 1)
    ELSE IF i <= Len(s) /\ s[i] = p[j] THEN MatchAt(s, i + 1, p, j + 1) ELSE 0

\* re.sub(p, r'\1' + repl, s): leftmost non-overlapping matches, left to right
RECURSIVE SubFrom(_, _, _, _)
SubFrom(s, i, p, repl) ==
    IF i > Len(s) THEN <<>>
    ELSE LET e == MatchAt(s, i, p, 1) IN
         IF e # 0 THEN SubSeq(s, i, e - 1) \o repl \o SubFrom(s, e, p, repl)
         ELSE <<s[i]>> \o SubFrom(s, i + 1, p, repl)

ReSub(p, repl, s) == SubFrom(s, 1, p, repl)

\* variant: the presence check is missing
Present_never(c) == FALSE

\* variant: only an imported `useCallback}` counts as present
Present_brace(c) == \E i \in 1..(Len(c) - 1) : c[i] = "useCallback" /\ c[i + 1] = "}"

\* 'useCallback' in content
Present(c) == \E i \in 1..Len(c) : c[i] = "useCallback"

\* variant: the presence check is repeated before the second substitution
FixImports_recheck(c) ==
    IF ~Present(c)
    THEN LET c1 == ReSub(Pattern1, Replacement, c) IN
         IF ~Present(c1) THEN ReSub(Pattern2, Replacement, c1) ELSE c1
    ELSE c

\* lines 12-23
FixImports(c) ==
    IF ~Present(c) THEN ReSub(Pattern2, Replacement, ReSub(Pattern1, Replacement, c))
    ELSE c

\* variant: the file is always rewritten
Changed_always(c, o) == TRUE

\* content != original_content (lines 43, 50)
Changed(c, o) == c # o

\* variant: the two statuses are swapped
ExitStatus_swapped(fixed) == IF fixed THEN 1 ELSE 0

\* sys.exit(0 if fixed else 1)
ExitStatus(fixed) == IF fixed THEN 0 ELSE 1

\* variant: off by one
ArgsMissing_off(n) == n < 1

\* len(sys.argv) < 2
ArgsMissing(n) == n < 2

\* exit status of the interpreter after an uncaught exception
UnhandledExit == 1

\* open(filepath, 'r'): universal newlines, "\r\n" and "\r" are read as "\n"
RECURSIVE Decode(_)
Decode(b) ==
    IF b = <<>> THEN <<>>
    ELSE IF b[1] = CR
         THEN IF Len(b) >= 2 /\ b[2] = LF THEN <<LF>> \o Decode(SubSeq(b, 3, Len(b)))
              ELSE <<LF>> \o Decode(Tail(b))
    ELSE <<b[1]>> \o Decode(Tail(b))

\* open(filepath, 'w'): "\n" is written as os.linesep
RECURSIVE Encode(_, _)
Encode(c, sep) ==
    IF c = <<>> THEN <<>>
    ELSE (IF c[1] = LF THEN sep ELSE <<c[1]>>) \o Encode(Tail(c), sep)

\* open(filepath, 'w') truncates the file
Truncate(d) == <<>>

\* ---- the files tried ----------------------------------------------------
ImportLit1 == <<"import", SP, "{", SP, "useEffect", ",", SP, "useState", SP, "}">>
ImportLit2 == <<"import", SP, "{", SP, "useState", ",", SP, "useEffect", SP, "}">>

Segments ==
    { ImportLit1,
      ImportLit2,
      <<"import", SP, "{", CR, LF, "useEffect", ",", CR, LF, "useState", CR, LF, "}">>,
      <<"import", LF, "{", "useState", ",", "useEffect", "}">>,
      <<"import", "{", SP, "useEffect", ",", SP, "useState", SP, "}">>,
      <<"import", SP, "{", SP, "useEffect", ",", SP, "useState", ",", SP, "x", SP, "}">>,
      <<"x", SP, "useCallback">>,
      <<SP, "x">>,
      <<SP, "x", CR, LF>>,
      <<"x", LF>>,
      <<CR>> }

RECURSIVE Flatten(_)
Flatten(ss) == IF ss = <<>> THEN <<>> ELSE Head(ss) \o Flatten(Tail(ss))

Files == { Flatten(ss) : ss \in UNION { [1..n -> Segments] : n \in 0..MaxSegs } }

LineSeps == { <<LF>>, <<CR, LF>> }

\* ---- state --------------------------------------------------------------
VARIABLES
    argc,              \* len(sys.argv)
    linesep,           \* os.linesep of the platform
    disk,              \* bytes of the file named by sys.argv[1]
    pc,                \* position of the script
    content,           \* local `content`
    original_content,  \* local `original_content`
    out,               \* lines printed to stdout
    exit,              \* exit status, -1 while running
    err,               \* "none", "read" or "write": the uncaught I/O error
    readOpens,         \* times the file was opened for reading in this run
    writeOpens,        \* times the file was opened for writing in this run
    writes,            \* times f.write completed in this run
    run,               \* number of the current invocation
    startDisk,         \* bytes of the file when this invocation started
    prevExit           \* exit status of the previous invocation, -1 if none

vars == <<argc, linesep, disk, pc, content, original_content, out, exit, err,
          readOpens, writeOpens, writes, run, startDisk, prevExit>>

Init ==
    /\ argc \in {1, 2}              \* the program name alone, or one file argument
    /\ linesep \in LineSeps
    /\ disk \in Files
    /\ pc = "main"
    /\ content = <<>>
    /\ original_content = <<>>
    /\ out = <<>>
    /\ exit = -1
    /\ err = "none"
    /\ readOpens = 0
    /\ writeOpens = 0
    /\ writes = 0
    /\ run = 1
    /\ startDisk = disk
    /\ prevExit = -1

\* lines 53-55
Usage ==
    /\ pc = "main"
    /\ ArgsMissing(argc)
    /\ out' = Append(out, "Usage: fix_react_hooks.py <file>")
    /\ exit' = 1
    /\ pc' = "done"
    /\ UNCHANGED <<argc, linesep, disk, content, original_content, err,
                   readOpens, writeOpens, writes, run, startDisk, prevExit>>

\* lines 57-58: the call
CallFix ==
    /\ pc = "main"
    /\ ~ArgsMissing(argc)
    /\ pc' = "open_r"
    /\ UNCHANGED <<argc, linesep, disk, content, original_content, out, exit, err,
                   readOpens, writeOpens, writes, run, startDisk, prevExit>>

\* lines 6-7, the open and the read succeed
ReadFile ==
    /\ pc = "open_r"
    /\ content' = Decode(disk)
    /\ readOpens' = readOpens + 1
    /\ pc' = "patch"
    /\ UNCHANGED <<argc, linesep, disk, original_content, out, exit, err,
                   writeOpens, writes, run, startDisk, prevExit>>

\* variant: the error is swallowed and the script goes on with empty content
ReadFail_swallow ==
    /\ pc = "open_r"
    /\ readOpens' = readOpens + 1
    /\ err' = "read"
    /\ pc' = "patch"
    /\ UNCHANGED <<argc, linesep, disk, content, original_content, out, exit,
                   writeOpens, writes, run, startDisk, prevExit>>

\* lines 6-7, open() or read() raises: uncaught, the interpreter exits
ReadFail ==
    /\ pc = "open_r"
    /\ readOpens' = readOpens + 1
    /\ err' = "read"
    /\ exit' = UnhandledExit
    /\ pc' = "done"
    /\ UNCHANGED <<argc, linesep, disk, content, original_content, out,
                   writeOpens, writes, run, startDisk, prevExit>>

\* lines 9-23
Patch ==
    /\ pc = "patch"
    /\ original_content' = content
    /\ content' = FixImports(content)
    /\ pc' = "print"
    /\ UNCHANGED <<argc, linesep, disk, out, exit, err,
                   readOpens, writeOpens, writes, run, startDisk, prevExit>>

\* line 41
PrintFile ==
    /\ pc = "print"
    /\ out' = Append(out, "File:")
    /\ pc' = "compare"
    /\ UNCHANGED <<argc, linesep, disk, content, original_content, exit, err,
                   readOpens, writeOpens, writes, run, startDisk, prevExit>>

\* lines 43-44, open(filepath, 'w') succeeds
OpenWrite ==
    /\ pc = "compare"
    /\ Changed(content, original_content)
    /\ disk' = Truncate(disk)
    /\ writeOpens' = writeOpens + 1
    /\ pc' = "write"
    /\ UNCHANGED <<argc, linesep, content, original_content, out, exit, err,
                   readOpens, writes, run, startDisk, prevExit>>

\* lines 43-44, open(filepath, 'w') raises
OpenWriteFail ==
    /\ pc = "compare"
    /\ Changed(content, original_content)
    /\ writeOpens' = writeOpens + 1
    /\ err' = "write"
    /\ exit' = UnhandledExit
    /\ pc' = "done"
    /\ UNCHANGED <<argc, linesep, disk, content, original_content, out,
                   readOpens, writes, run, startDisk, prevExit>>

\* line 45 and the close at the end of the with block
WriteFile ==
    /\ pc = "write"
    /\ disk' = disk \o Encode(content, linesep)
    /\ writes' = writes + 1
    /\ pc' = "report"
    /\ UNCHANGED <<argc, linesep, content, original_content, out, exit, err,
                   readOpens, writeOpens, run, startDisk, prevExit>>

\* line 45 or the flush at close raises: some prefix of the data reached the file
WriteFail ==
    /\ pc = "write"
    /\ \E k \in 0..Len(Encode(content, linesep)) :
           disk' = disk \o SubSeq(Encode(content, linesep), 1, k)
    /\ err' = "write"
    /\ exit' = UnhandledExit
    /\ pc' = "done"
    /\ UNCHANGED <<argc, linesep, content, original_content, out,
                   readOpens, writeOpens, writes, run, startDisk, prevExit>>

\* line 46
ReportFixed ==
    /\ pc = "report"
    /\ out' = Append(out, "Fixed imports")
    /\ pc' = "return"
    /\ UNCHANGED <<argc, linesep, disk, content, original_content, exit, err,
                   readOpens, writeOpens, writes, run, startDisk, prevExit>>

\* lines 43, 47-48
ReportNoChange ==
    /\ pc = "compare"
    /\ ~Changed(content, original_content)
    /\ out' = Append(out, "No import changes needed")
    /\ pc' = "return"
    /\ UNCHANGED <<argc, linesep, disk, content, original_content, exit, err,
                   readOpens, writeOpens, writes, run, startDisk, prevExit>>

\* lines 50, 58-59
Exit ==
    /\ pc = "return"
    /\ exit' = ExitStatus(Changed(content, original_content))
    /\ pc' = "done"
    /\ UNCHANGED <<argc, linesep, disk, content, original_content, out, err,
                   readOpens, writeOpens, writes, run, startDisk, prevExit>>

\* the same command is run again on the same file
NextRun ==
    /\ pc = "done"
    /\ run < MaxRuns
    /\ run' = run + 1
    /\ prevExit' = exit
    /\ startDisk' = disk
    /\ pc' = "main"
    /\ content' = <<>>
    /\ original_content' = <<>>
    /\ out' = <<>>
    /\ exit' = -1
    /\ err' = "none"
    /\ readOpens' = 0
    /\ writeOpens' = 0
    /\ writes' = 0
    /\ UNCHANGED <<argc, linesep, disk>>

Next ==
    \/ Usage
    \/ CallFix
    \/ ReadFile
    \/ ReadFail
    \/ Patch
    \/ PrintFile
    \/ OpenWrite
    \/ OpenWriteFail
    \/ WriteFile
    \/ WriteFail
    \/ ReportFixed
    \/ ReportNoChange
    \/ Exit
    \/ NextRun

Spec == Init /\ [][Next]_vars

\* ---- vocabulary of the properties ---------------------------------------
Inserted == <<",", SP, "useCallback", "}">>

HasToken(s, t) == \E i \in 1..Len(s) : s[i] = t

\* number of places where the token sequence sub occurs in s
CountOcc(s, sub) ==
    Cardinality({ i \in 1..(Len(s) - Len(sub) + 1) : SubSeq(s, i, i + Len(sub) - 1) = sub })

\* end positions (index just after) of the occurrences of an import shape in s
ShapeEnds(s) ==
    ({ MatchAt(s, i, Pattern1, 1) : i \in 1..Len(s) } \cup
     { MatchAt(s, i, Pattern2, 1) : i \in 1..Len(s) }) \ {0}

HasShape(s) ==
    \E i \in 1..Len(s) : MatchAt(s, i, Pattern1, 1) # 0 \/ MatchAt(s, i, Pattern2, 1) # 0

\* s with every occurrence of `, useCallback}` deleted
RECURSIVE RemoveInserted(_)
RemoveInserted(s) ==
    IF s = <<>> THEN <<>>
    ELSE IF Len(s) >= Len(Inserted) /\ SubSeq(s, 1, Len(Inserted)) = Inserted
         THEN RemoveInserted(SubSeq(s, Len(Inserted) + 1, Len(s)))
    ELSE <<s[1]>> \o RemoveInserted(Tail(s))

FileGiven == argc >= 2
Ended == pc = "done"
\* the run got past the read of the file
WasRead == FileGiven /\ err # "read" /\ pc \notin {"main", "open_r"}
\* the run got past lines 12-23
WasPatched == WasRead /\ pc # "patch"
FromReact == <<SP, "x">>

\* ---- C1 -----------------------------------------------------------------
\* C1: a run without I/O failure on a file that has no `useCallback` and
\* contains `import { useEffect, useState }` or `import { useState,
\* useEffect }` leaves every such import followed at once by `, useCallback}`
\* and exits 0; the two examples of the specification come out as stated.
C1_InsertAfterImport ==
    (Ended /\ FileGiven /\ err = "none" /\ ~HasToken(startDisk, "useCallback")
       /\ CountOcc(startDisk, ImportLit1) + CountOcc(startDisk, ImportLit2) > 0)
    => /\ exit = 0
       /\ \A L \in {ImportLit1, ImportLit2} :
             /\ CountOcc(disk, L) = CountOcc(startDisk, L)
             /\ CountOcc(disk, L \o Inserted) = CountOcc(startDisk, L)
             /\ startDisk = L \o FromReact => disk = L \o Inserted \o FromReact

C1_Witness ==
    /\ Ended /\ err = "none" /\ exit = 0
    /\ startDisk = ImportLit1 \o FromReact
    /\ disk = ImportLit1 \o Inserted \o FromReact

\* ---- C2 -----------------------------------------------------------------
\* C2: in a run that follows a run which exited 0, the file stays as that
\* run found it, it is never opened for writing, and the exit status is 1.
C2_Idempotent ==
    (run >= 2 /\ prevExit = 0)
    => /\ disk = startDisk
       /\ writeOpens = 0
       /\ writes = 0
       /\ Ended => exit = 1

C2_Witness ==
    /\ run = 2 /\ prevExit = 0 /\ Ended /\ err = "none"
    /\ out = <<"File:", "No import changes needed">>
    /\ HasShape(disk)

\* ---- C3 -----------------------------------------------------------------
\* C3: when the file contains `useCallback` anywhere, the run makes no
\* insertion, never opens the file for writing, leaves it as it was and
\* exits 1, whatever imports the file holds.
C3_AlreadyPresent ==
    (FileGiven /\ HasToken(startDisk, "useCallback"))
    => /\ disk = startDisk
       /\ writeOpens = 0
       /\ WasPatched => content = original_content
       /\ Ended => exit = 1

C3_Witness ==
    /\ Ended /\ FileGiven /\ err = "none"
    /\ HasToken(startDisk, "useCallback") /\ HasShape(startDisk)
    /\ disk = startDisk /\ exit = 1

\* ---- C4 -----------------------------------------------------------------
\* C4: when the file contains neither import shape, the file is never
\* opened for writing and stays byte-identical, the exit status is 1, and a
\* run that read the file reports `No import changes needed`.
C4_NoShapeNoChange ==
    (FileGiven /\ ~HasShape(startDisk))
    => /\ disk = startDisk
       /\ writeOpens = 0
       /\ Ended => exit = 1
       /\ (Ended /\ err = "none") => out = <<"File:", "No import changes needed">>

C4_Witness ==
    /\ Ended /\ FileGiven /\ err = "none" /\ ~HasShape(startDisk)
    /\ ~HasToken(startDisk, "useCallback") /\ HasToken(startDisk, "import")
    /\ exit = 1

\* ---- C5 -----------------------------------------------------------------
ContentDiffers == content # original_content
FileWritten == writes >= 1
FixedReported == HasToken(out, "Fixed imports")

\* C5 as stated: in every finished run that read the file, "the patched
\* content differs", "the file is written", "`Fixed imports` is reported"
\* and "exit 0" are equivalent, otherwise `No import changes needed` is
\* reported with exit 1; one read, at most one write.
C5_AsStated ==
    (Ended /\ WasRead)
    => /\ ContentDiffers <=> FileWritten
       /\ FileWritten <=> FixedReported
       /\ FixedReported <=> (exit = 0)
       /\ ~ContentDiffers => (~FileWritten /\ HasToken(out, "No import changes needed") /\ exit = 1)
       /\ readOpens = 1
       /\ writes <= 1

\* C5 amended: "the file is completely written", "`Fixed imports` is
\* reported" and "exit 0" are equivalent and imply that the content differs;
\* a differing content gives all of them unless the write step raises, and
\* then no result line is printed and the status is 1; an equal content
\* gives no open for writing, `No import changes needed` and status 1; the
\* file is read once and opened for writing at most once.
C5_WriteIffReported ==
    (Ended /\ WasRead)
    => /\ FileWritten <=> FixedReported
       /\ FixedReported <=> (exit = 0)
       /\ (exit = 0) => (ContentDiffers /\ disk = Encode(content, linesep))
       /\ (ContentDiffers /\ err = "none") => exit = 0
       /\ (ContentDiffers /\ err = "write") => (out = <<"File:">> /\ exit = 1)
       /\ ~ContentDiffers =>
             /\ writeOpens = 0 /\ disk = startDisk
             /\ out = <<"File:", "No import changes needed">> /\ exit = 1
       /\ readOpens = 1
       /\ writeOpens <= 1
       /\ writes <= 1

C5_Witness ==
    /\ Ended /\ WasRead /\ ContentDiffers /\ err = "write"
    /\ writeOpens = 1 /\ exit = 1

\* ---- C6 -----------------------------------------------------------------
\* C6: with no argument after the program name the file is never opened,
\* read or written, and the run ends with the usage line and status 1.
C6_UsageOnly ==
    (argc < 2)
    => /\ readOpens = 0 /\ writeOpens = 0 /\ writes = 0
       /\ disk = startDisk
       /\ Ended => (out = <<"Usage: fix_react_hooks.py <file>">> /\ exit = 1)
       /\ pc \in {"main", "done"}

C6_Witness ==
    /\ argc = 1 /\ Ended /\ exit = 1 /\ HasShape(disk)
    /\ out = <<"Usage: fix_react_hooks.py <file>">>

\* ---- C7 -----------------------------------------------------------------
\* C7: when a patch is applied (exit 0), deleting every `, useCallback}`
\* from the file written gives back the file read, token for token, line
\* terminators included.
C7_RestPreserved ==
    (Ended /\ FileGiven /\ exit = 0) => RemoveInserted(disk) = startDisk

\* ---- C8 -----------------------------------------------------------------
\* C8: when a run has ended, normally or by an I/O failure, the file holds
\* either the bytes the run found or the complete patched content.
C8_NoPartialWrite ==
    Ended => (disk = startDisk \/ (WasRead /\ disk = Encode(content, linesep)))

\* ---- C9 -----------------------------------------------------------------
\* C9: a failed open or read ends the run at once with a non-zero status,
\* after a single attempt, with no write and nothing printed.
C9_ReadFailureFatal ==
    (err = "read")
    => /\ Ended
       /\ exit \notin {-1, 0}
       /\ readOpens = 1
       /\ writeOpens = 0 /\ writes = 0
       /\ disk = startDisk
       /\ out = <<>>

C9_Witness ==
    /\ err = "read" /\ Ended /\ exit = 1 /\ HasShape(disk)
    /\ ~HasToken(disk, "useCallback")

\* ---- C10 ----------------------------------------------------------------
\* C10: right after lines 12-23 on a content without `useCallback`, every
\* occurrence of either import ordering is followed by exactly one
\* `, useCallback}`, nothing else is added, and no import gets two.
C10_EachPatchedOnce ==
    (pc = "print" /\ ~HasToken(original_content, "useCallback"))
    => LET ends == ShapeEnds(original_content)
           before(e) == Cardinality({ x \in ends : x < e })
       IN  /\ Len(content) = Len(original_content) + Len(Inserted) * Cardinality(ends)
           /\ CountOcc(content, Inserted) = Cardinality(ends)
           /\ CountOcc(content, Inserted \o Inserted) = 0
           /\ \A e \in ends :
                 LET at == e + Len(Inserted) * before(e) IN
                 SubSeq(content, at, at + Len(Inserted) - 1) = Inserted
           /\ RemoveInserted(content) = original_content

C10_Witness ==
    /\ pc = "print"
    /\ original_content = ImportLit1 \o ImportLit2
    /\ content = ImportLit1 \o Inserted \o ImportLit2 \o Inserted
====
